---- MODULE Spec2Model ----
(***************************************************************************)
(* Model of the jk Jenkins client: the locator resolver                    *)
(* (src/lib/jenkins/locator.ts) and the failure aggregation engine         *)
(* (src/lib/jenkins/operations.ts).                                        *)
(*                                                                         *)
(* Text is a sequence of symbols.  A symbol is one character ("/", "%",    *)
(* ".", " ", a digit, a letter) or a run of letters that the code only     *)
(* treats as a unit ("pipelines", "job", "runs", "https:", "host").        *)
(***************************************************************************)
EXTENDS Integers, Sequences, FiniteSets, TLC

---------------------------------------------------------------------------
(* Text helpers: String.prototype.split("/") and Array.prototype.join("/") *)

Digits == {"0", "1", "2", "3", "4", "5", "6", "7", "8", "9"}

DigitVal(d) ==
  CASE d = "0" -> 0 [] d = "1" -> 1 [] d = "2" -> 2 [] d = "3" -> 3
    [] d = "4" -> 4 [] d = "5" -> 5 [] d = "6" -> 6 [] d = "7" -> 7
    [] d = "8" -> 8 [] d = "9" -> 9

DigitSym(n) ==
  CASE n = 0 -> "0" [] n = 1 -> "1" [] n = 2 -> "2" [] n = 3 -> "3"
    [] n = 4 -> "4" [] n = 5 -> "5" [] n = 6 -> "6" [] n = 7 -> "7"
    [] n = 8 -> "8" [] n = 9 -> "9"

RECURSIVE SplitAcc(_, _, _)
SplitAcc(s, cur, acc) ==
  IF s = <<>> THEN Append(acc, cur)
  ELSE IF Head(s) = "/" THEN SplitAcc(Tail(s), <<>>, Append(acc, cur))
  ELSE SplitAcc(Tail(s), Append(cur, Head(s)), acc)

\* s.split("/")
Split(s) == SplitAcc(s, <<>>, <<>>)

RECURSIVE Join(_)
\* segs.join("/")
Join(segs) ==
  IF segs = <<>> THEN <<>>
  ELSE IF Len(segs) = 1 THEN segs[1]
  ELSE segs[1] \o <<"/">> \o Join(Tail(segs))

RECURSIVE Flatten(_)
\* results.flat()
Flatten(ss) == IF ss = <<>> THEN <<>> ELSE Head(ss) \o Flatten(Tail(ss))

\* the leading run of digits of a segment, as the greedy (\d+) takes it
RECURSIVE DigitPrefix(_)
DigitPrefix(seg) ==
  IF seg = <<>> \/ Head(seg) \notin Digits THEN <<>>
  ELSE <<Head(seg)>> \o DigitPrefix(Tail(seg))

RECURSIVE ParseIntAcc(_, _)
ParseIntAcc(ds, acc) ==
  IF ds = <<>> THEN acc ELSE ParseIntAcc(Tail(ds), 10 * acc + DigitVal(Head(ds)))

\* parseInt(digits, 10)
ParseInt(ds) == ParseIntAcc(ds, 0)

RECURSIVE NumToText(_)
\* `${buildNumber}`
NumToText(n) ==
  IF n < 10 THEN <<DigitSym(n)>> ELSE NumToText(n \div 10) \o <<DigitSym(n % 10)>>

---------------------------------------------------------------------------
(* Locator resolver: src/lib/jenkins/locator.ts                            *)

Letters == {"A", "B", "C", "D", "E", "F", "a", "b", "e", "f", "x"}
Words == {"pipelines", "job", "runs", "detail", "pipeline", "nodes", "log",
          "blue", "rest", "organizations", "jenkins", "https", "host"}

\* SAFE_PATH_SEGMENT_REGEX = /^[a-zA-Z0-9_.\- ]+$/
SafeSyms == Letters \cup Words \cup Digits \cup {"_", ".", "-", " "}
SAFE_PATH_SEGMENT_REGEX(seg) == seg # <<>> /\ \A i \in 1..Len(seg) : seg[i] \in SafeSyms

HexSyms == Digits \cup {"A", "B", "C", "D", "E", "F", "a", "b", "c", "d", "e", "f"}

\* the character a percent escape stands for
HexPairChar(h1, h2) ==
  CASE h1 = "2" /\ h2 = "0" -> " "
    [] h1 = "2" /\ h2 = "5" -> "%"
    [] h1 = "2" /\ h2 \in {"E", "e"} -> "."
    [] h1 = "2" /\ h2 \in {"F", "f"} -> "/"
    [] h1 = "3" /\ h2 \in {"A", "a"} -> ":"

\* a "%" that is not followed by two hex digits makes decodeURIComponent throw
RECURSIVE Malformed(_)
Malformed(s) ==
  IF s = <<>> THEN FALSE
  ELSE IF Head(s) = "%"
       THEN IF Len(s) >= 3 /\ s[2] \in HexSyms /\ s[3] \in HexSyms
            THEN Malformed(SubSeq(s, 4, Len(s)))
            ELSE TRUE
       ELSE Malformed(Tail(s))

RECURSIVE DecodeEscapes(_)
DecodeEscapes(s) ==
  IF s = <<>> THEN <<>>
  ELSE IF Head(s) = "%"
       THEN <<HexPairChar(s[2], s[3])>> \o DecodeEscapes(SubSeq(s, 4, Len(s)))
       ELSE <<Head(s)>> \o DecodeEscapes(Tail(s))

\* try { return decodeURIComponent(s) } catch { return s }
decodeURIComponent(s) == IF Malformed(s) THEN s ELSE DecodeEscapes(s)

decodePath(path) ==
  LET segs == Split(path)
  IN  Join([i \in 1..Len(segs) |-> decodeURIComponent(segs[i])])

RECURSIVE encodeURIComponent(_)
encodeURIComponent(s) ==
  IF s = <<>> THEN <<>>
  ELSE (CASE Head(s) = " " -> <<"%", "2", "0">>
          [] Head(s) = "%" -> <<"%", "2", "5">>
          [] Head(s) = "/" -> <<"%", "2", "F">>
          [] Head(s) = ":" -> <<"%", "3", "A">>
          [] OTHER -> <<Head(s)>>) \o encodeURIComponent(Tail(s))

encodePath(path) ==
  LET segs == Split(path)
  IN  Join([i \in 1..Len(segs) |-> encodeURIComponent(segs[i])])

validatePipelinePath(path) ==
  LET segments == SelectSeq(Split(path), LAMBDA seg : Len(seg) > 0)
  IN  /\ \A i \in 1..Len(segments) :
           /\ SAFE_PATH_SEGMENT_REGEX(segments[i])
           /\ segments[i] # <<".", ".">>
           /\ segments[i] # <<".">>
      /\ Len(segments) > 0

NoMatch == [matched |-> FALSE, group |-> <<>>, digits |-> <<>>]

\* /\/job\/([^/]+(?:\/job\/[^/]+)*)\/(\d+)/  : leftmost start, greedy repetition
JobFits(segs, i, k) ==
  /\ i >= 2 /\ i + 2 + 2 * k <= Len(segs)
  /\ segs[i] = <<"job">>
  /\ \A j \in 0..k : segs[i + 1 + 2 * j] # <<>>
  /\ \A j \in 1..k : segs[i + 2 * j] = <<"job">>
  /\ DigitPrefix(segs[i + 2 + 2 * k]) # <<>>

JOB_URL_REGEX(text) ==
  LET segs == Split(text)
      n == Len(segs)
      starts == {i \in 2..n : \E k \in 0..n : JobFits(segs, i, k)}
  IN  IF starts = {} THEN NoMatch
      ELSE LET i == CHOOSE a \in starts : \A b \in starts : a <= b
               ks == {k \in 0..n : JobFits(segs, i, k)}
               k == CHOOSE a \in ks : \A b \in ks : a >= b
           IN  [matched |-> TRUE,
                group |-> Join(SubSeq(segs, i + 1, i + 1 + 2 * k)),
                digits |-> DigitPrefix(segs[i + 2 + 2 * k])]

\* /\/pipelines\/([^/]+(?:\/[^/]+)*)\/runs\/(\d+)/
PipelineUrlFits(segs, i, m) ==
  /\ i >= 2 /\ m >= i + 1 /\ m + 2 <= Len(segs)
  /\ segs[i] = <<"pipelines">>
  /\ \A j \in (i + 1)..m : segs[j] # <<>>
  /\ segs[m + 1] = <<"runs">>
  /\ DigitPrefix(segs[m + 2]) # <<>>

PIPELINE_URL_REGEX(text) ==
  LET segs == Split(text)
      n == Len(segs)
      starts == {i \in 2..n : \E m \in 1..n : PipelineUrlFits(segs, i, m)}
  IN  IF starts = {} THEN NoMatch
      ELSE LET i == CHOOSE a \in starts : \A b \in starts : a <= b
               ms == {m \in 1..n : PipelineUrlFits(segs, i, m)}
               m == CHOOSE a \in ms : \A b \in ms : a >= b
           IN  [matched |-> TRUE,
                group |-> Join(SubSeq(segs, i + 1, m)),
                digits |-> DigitPrefix(segs[m + 2])]

AllDigits(seg) == seg # <<>> /\ DigitPrefix(seg) = seg

\* /^pipelines\/([^/]+(?:\/[^/]+)*)\/runs\/(\d+)$/
PIPELINE_PATH_WITH_RUNS_REGEX(text) ==
  LET segs == Split(text)
      n == Len(segs)
  IN  IF /\ n >= 4 /\ segs[1] = <<"pipelines">>
         /\ \A j \in 2..(n - 2) : segs[j] # <<>>
         /\ segs[n - 1] = <<"runs">> /\ AllDigits(segs[n])
      THEN [matched |-> TRUE, group |-> Join(SubSeq(segs, 2, n - 2)), digits |-> segs[n]]
      ELSE NoMatch

\* /^pipelines\/([^/]+(?:\/[^/]+)*)\/(\d+)$/
PIPELINE_PATH_REGEX(text) ==
  LET segs == Split(text)
      n == Len(segs)
  IN  IF /\ n >= 3 /\ segs[1] = <<"pipelines">>
         /\ \A j \in 2..(n - 1) : segs[j] # <<>>
         /\ AllDigits(segs[n])
      THEN [matched |-> TRUE, group |-> Join(SubSeq(segs, 2, n - 1)), digits |-> segs[n]]
      ELSE NoMatch

\* text.replace(/\/<word>\//g, "/") : non-overlapping matches, left to right
RECURSIVE DropWord(_, _, _, _)
DropWord(segs, word, i, prevDropped) ==
  IF i > Len(segs) THEN <<>>
  ELSE IF i >= 2 /\ i < Len(segs) /\ segs[i] = <<word>> /\ ~prevDropped
       THEN DropWord(segs, word, i + 1, TRUE)
       ELSE <<segs[i]>> \o DropWord(segs, word, i + 1, FALSE)

\* the same replacement without the g flag: the first match only
RECURSIVE DropFirstWord(_, _, _)
DropFirstWord(segs, word, i) ==
  IF i > Len(segs) THEN <<>>
  ELSE IF i >= 2 /\ i < Len(segs) /\ segs[i] = <<word>>
       THEN SubSeq(segs, i + 1, Len(segs))
       ELSE <<segs[i]>> \o DropFirstWord(segs, word, i + 1)

ReplaceFirst(text, word) == Join(DropFirstWord(Split(text), word, 1))
ReplaceAll(text, word) == Join(DropWord(Split(text), word, 1, FALSE))

InvalidLocatorError(locator) ==
  [ok |-> FALSE, error |-> [tag |-> "InvalidLocatorError", locator |-> locator]]

Located(pipelinePath, digits, locator) ==
  IF ~validatePipelinePath(pipelinePath) THEN InvalidLocatorError(locator)
  ELSE [ok |-> TRUE, path |-> pipelinePath, buildNumber |-> ParseInt(digits)]

parseLocator(locator) ==
  LET jobMatch == JOB_URL_REGEX(locator)
      pipelineUrlMatch == PIPELINE_URL_REGEX(locator)
      pipelineRunsMatch == PIPELINE_PATH_WITH_RUNS_REGEX(locator)
      pipelinePathMatch == PIPELINE_PATH_REGEX(locator)
      root == <<"pipelines", "/">>
  IN  IF jobMatch.matched
      THEN Located(root \o ReplaceAll(decodePath(jobMatch.group), "job"),
                   jobMatch.digits, locator)
      ELSE IF pipelineUrlMatch.matched
      THEN Located(root \o ReplaceAll(decodePath(pipelineUrlMatch.group), "pipelines"),
                   pipelineUrlMatch.digits, locator)
      ELSE IF pipelineRunsMatch.matched
      THEN Located(root \o decodePath(pipelineRunsMatch.group),
                   pipelineRunsMatch.digits, locator)
      ELSE IF pipelinePathMatch.matched
      THEN Located(root \o decodePath(pipelinePathMatch.group),
                   pipelinePathMatch.digits, locator)
      ELSE InvalidLocatorError(locator)

\* the segment a pattern ending in \/?$ ends at
LastSeg(segs) == IF segs[Len(segs)] = <<>> THEN Len(segs) - 1 ELSE Len(segs)

\* /\/job\/([^/]+(?:\/job\/[^/]+)*)\/?$/
JobNoBuildFits(segs, i) ==
  LET e == LastSeg(segs)
  IN  /\ i >= 2 /\ i + 1 <= e /\ (e - i) % 2 = 1
      /\ \A j \in i..e : IF (j - i) % 2 = 0 THEN segs[j] = <<"job">> ELSE segs[j] # <<>>

JOB_URL_NO_BUILD_REGEX(text) ==
  LET segs == Split(text)
      starts == {i \in 2..Len(segs) : JobNoBuildFits(segs, i)}
  IN  IF starts = {} THEN NoMatch
      ELSE LET i == CHOOSE a \in starts : \A b \in starts : a <= b
           IN  [matched |-> TRUE, group |-> Join(SubSeq(segs, i + 1, LastSeg(segs))),
                digits |-> <<>>]

\* /\/pipelines\/([^/]+(?:\/[^/]+)*)\/?$/
JobPipelineUrlFits(segs, i) ==
  /\ i >= 2 /\ i + 1 <= LastSeg(segs)
  /\ segs[i] = <<"pipelines">>
  /\ \A j \in (i + 1)..LastSeg(segs) : segs[j] # <<>>

JOB_PIPELINE_URL_REGEX(text) ==
  LET segs == Split(text)
      starts == {i \in 2..Len(segs) : JobPipelineUrlFits(segs, i)}
  IN  IF starts = {} THEN NoMatch
      ELSE LET i == CHOOSE a \in starts : \A b \in starts : a <= b
           IN  [matched |-> TRUE, group |-> Join(SubSeq(segs, i + 1, LastSeg(segs))),
                digits |-> <<>>]

\* /^pipelines\/([^/]+(?:\/[^/]+)*)\/?$/
JOB_PATH_REGEX(text) ==
  LET segs == Split(text)
      e == LastSeg(segs)
  IN  IF /\ e >= 2 /\ segs[1] = <<"pipelines">>
         /\ \A j \in 2..e : segs[j] # <<>>
      THEN [matched |-> TRUE, group |-> Join(SubSeq(segs, 2, e)), digits |-> <<>>]
      ELSE NoMatch

JobLocated(pipelinePath, locator) ==
  IF ~validatePipelinePath(pipelinePath) THEN InvalidLocatorError(locator)
  ELSE [ok |-> TRUE, path |-> pipelinePath]

parseJobLocator(locator) ==
  LET jobMatch == JOB_URL_NO_BUILD_REGEX(locator)
      pipelineUrlMatch == JOB_PIPELINE_URL_REGEX(locator)
      pathMatch == JOB_PATH_REGEX(locator)
      root == <<"pipelines", "/">>
  IN  IF jobMatch.matched
      THEN JobLocated(root \o ReplaceAll(decodePath(jobMatch.group), "job"), locator)
      ELSE IF pipelineUrlMatch.matched
      THEN JobLocated(root \o ReplaceAll(decodePath(pipelineUrlMatch.group), "pipelines"),
                      locator)
      ELSE IF pathMatch.matched
      THEN JobLocated(root \o decodePath(pathMatch.group), locator)
      ELSE InvalidLocatorError(locator)

\* /\/pipelines\/([^/]+(?:\/[^/]+)*)\/detail\/[^/]+\/(\d+)\/pipeline\/(\d+)/
NodeUrlFits(segs, i, m) ==
  /\ i >= 2 /\ m >= i + 1 /\ m + 5 <= Len(segs)
  /\ segs[i] = <<"pipelines">>
  /\ \A j \in (i + 1)..m : segs[j] # <<>>
  /\ segs[m + 1] = <<"detail">>
  /\ segs[m + 2] # <<>>
  /\ AllDigits(segs[m + 3])
  /\ segs[m + 4] = <<"pipeline">>
  /\ DigitPrefix(segs[m + 5]) # <<>>

PIPELINE_NODE_URL_REGEX(text) ==
  LET segs == Split(text)
      n == Len(segs)
      starts == {i \in 2..n : \E m \in 1..n : NodeUrlFits(segs, i, m)}
  IN  IF starts = {} THEN [matched |-> FALSE, group |-> <<>>, digits |-> <<>>, node |-> <<>>]
      ELSE LET i == CHOOSE a \in starts : \A b \in starts : a <= b
               ms == {m \in 1..n : NodeUrlFits(segs, i, m)}
               m == CHOOSE a \in ms : \A b \in ms : a >= b
           IN  [matched |-> TRUE,
                group |-> Join(SubSeq(segs, i + 1, m)),
                digits |-> segs[m + 3],
                node |-> DigitPrefix(segs[m + 5])]

parseNodeUrl(url) ==
  LET nodeMatch == PIPELINE_NODE_URL_REGEX(url)
      pipelinePath == <<"pipelines", "/">>
                        \o ReplaceAll(decodePath(nodeMatch.group), "pipelines")
  IN  IF ~nodeMatch.matched THEN InvalidLocatorError(url)
      ELSE IF ~validatePipelinePath(pipelinePath) THEN InvalidLocatorError(url)
      ELSE [ok |-> TRUE, path |-> pipelinePath,
            buildNumber |-> ParseInt(nodeMatch.digits), nodeId |-> nodeMatch.node]

ApiRoot == <<"/", "blue", "/", "rest", "/", "organizations", "/", "jenkins", "/">>

buildNodesApiPath(pipelineInfo) ==
  ApiRoot \o encodePath(pipelineInfo.path) \o <<"/", "runs", "/">>
    \o NumToText(pipelineInfo.buildNumber) \o <<"/", "nodes", "/">>

buildNodeConsoleApiPath(pipelineInfo, nodeId) ==
  buildNodesApiPath(pipelineInfo) \o <<nodeId, "/", "log", "/">>

\* jenkinsBaseUrl.replace(/\/$/, "")
StripTrailingSlash(url) ==
  IF url # <<>> /\ url[Len(url)] = "/" THEN SubSeq(url, 1, Len(url) - 1) ELSE url

buildWebUrl(jenkinsBaseUrl, pipelineInfo) ==
  LET baseUrl == StripTrailingSlash(jenkinsBaseUrl)
      encodedPath == encodePath(pipelineInfo.path)
      parts == Split(pipelineInfo.path)
      lastSegment == parts[Len(parts)]
  IN  baseUrl \o <<"/", "blue", "/", "organizations", "/", "jenkins", "/">>
        \o encodedPath \o <<"/", "detail", "/">> \o encodeURIComponent(lastSegment)
        \o <<"/">> \o NumToText(pipelineInfo.buildNumber) \o <<"/">>

buildNodeWebUrl(jenkinsBaseUrl, pipelineInfo, nodeId) ==
  buildWebUrl(jenkinsBaseUrl, pipelineInfo) \o <<"pipeline", "/", nodeId>>

---------------------------------------------------------------------------
(* The Jenkins server as the client sees it: src/lib/jenkins/client.ts     *)

\* bounds of the server's answers: steps and actions over one call, and per build
MaxNodes == 3
MaxLinks == 3
MaxBuildNodes == 2
MaxBuildLinks == 2
\* calls of buildFailureReportRecursive nested in one another
MaxDepth == 4

JenkinsUrl == <<"https", ":", "/", "/", "host", "/">>

\* links a step can carry: three builds in three formats, one that is no locator,
\* and one whose path is unsafe
hrefA == <<"https", ":", "/", "/", "host", "/", "job", "/", "A", "/", "1", "/">>
hrefB == <<"pipelines", "/", "B", "/", "2">>
hrefC == <<"/", "blue", "/", "pipelines", "/", "C", "/", "runs", "/", "3">>
hrefBad == <<"https", ":", "/", "/", "host", "/", "x">>
NoHref == <<>>
hrefUnsafe == <<"pipelines", "/", ".", ".", "/", "B", "/", "2">>
Hrefs == {hrefA, hrefB, hrefC, hrefBad, hrefUnsafe}

\* locators a caller passes
locA == <<"pipelines", "/", "A", "/", "1">>
Locators == {locA, hrefBad}

NULL == "null"
\* BuildResultSchema, and null for a step that has no result yet
BuildResults == {"SUCCESS", "FAILURE", "UNSTABLE", "ABORTED", "NOT_BUILT", NULL}
\* the results the server draws from while sub-builds are followed
WalkResults == {"SUCCESS", "FAILURE"}

\* the actions a step can carry; the shallow report never reads them
ActionSet(m) ==
  IF m = "shallow" THEN {[link |-> hrefB]}
  ELSE {[link |-> h] : h \in Hrefs \cup {NoHref}}

RECURSIVE SeqsUpTo(_, _)
SeqsUpTo(S, n) ==
  IF n <= 0 THEN {<<>>}
  ELSE {<<>>} \cup {<<x>> \o t : x \in S, t \in SeqsUpTo(S, n - 1)}

Min(a, b) == IF a <= b THEN a ELSE b

\* step lists of at most n steps carrying at most l actions in all
RECURSIVE ShapeLists(_, _, _, _)
ShapeLists(results, actions, n, l) ==
  IF n <= 0 THEN {<<>>}
  ELSE {<<>>} \cup
       UNION {{<<[result |-> r, actions |-> a]>> \o rest :
                 rest \in ShapeLists(results, actions, n - 1, l - Len(a))} :
              r \in results, a \in SeqsUpTo(actions, l)}

\* BuildNodeSchema: the server numbers the steps of a build
BuildNodes(shapes) ==
  [i \in 1..Len(shapes) |->
     [id |-> DigitSym(i), displayName |-> <<"step", DigitSym(i)>>,
      result |-> shapes[i].result, actions |-> shapes[i].actions]]

RECURSIVE CountActions(_)
CountActions(nodes) ==
  IF nodes = <<>> THEN 0 ELSE Len(Head(nodes).actions) + CountActions(Tail(nodes))

\* what makeRequest / getValidated fail with
NetworkError404 == [tag |-> "NetworkError", statusCode |-> 404]
NetworkErrorNoStatus == [tag |-> "NetworkError", statusCode |-> 0]
AuthenticationError == [tag |-> "AuthenticationError"]
ValidationError == [tag |-> "ValidationError"]
getValidatedErrors ==
  {NetworkError404, NetworkErrorNoStatus, AuthenticationError, ValidationError}
getTextErrors == {NetworkError404, NetworkErrorNoStatus, AuthenticationError}

BuildNotFoundError(pipelineInfo) ==
  [tag |-> "BuildNotFoundError",
   pipeline |-> pipelineInfo.path, buildNumber |-> pipelineInfo.buildNumber]

---------------------------------------------------------------------------
(* Failure aggregation engine: src/lib/jenkins/operations.ts               *)

VARIABLES
  mode,            \* which operation runs: "idle", "shallow" or "recursive"
  locator,         \* the locator argument of the call
  includeFull,     \* the includeFull argument of the call
  server,          \* the step lists the server has answered with, by request path
  nodesLeft,       \* steps the server may still answer with
  linksLeft,       \* actions the server may still answer with
  visited,         \* the Set<string> handed through the recursion
  stack,           \* the calls of buildFailureReport(Recursive) in progress
  outcome,         \* how the top-level Effect ended
  nodeFetches,     \* request paths of the getValidated calls, in order
  consoleFetches,  \* the getText calls, in order: request path and whether it succeeded
  segments,        \* resolver runs: the path segments a text is written from
  number,          \* resolver runs: the digits of the build number
  resolution,      \* resolver runs: the last operation and what it returned
  locators,        \* watch: the locators argument
  options,         \* watch: the options argument (noNotify, limit)
  builds,          \* watch: the results of the builds on the server, by build number
  atStart,         \* watch: the latest build number when watch started
  phase,           \* watch: how far initialize has come
  pipelineStates,  \* watch: one record per watched pipeline, with its highWaterMark
  recentFailures,  \* watch: the recent-failures list, newest first
  latestFailure,   \* watch: the failure the copy key uses: <<failure>>, or <<>> for null
  isRunning,
  isPolling,
  hasPolledOnce,
  hasCleanedUp,
  pollIntervalId,  \* watch: whether the polling interval timer is set
  pollStep,        \* watch: where the poll in progress stands
  allNewFailures,  \* watch: the new failures of the poll in progress
  sent,            \* watch: how many of them the poll has notified
  notified,        \* watch: the build numbers of the notify calls, in order
  command          \* command line: the call in hand, its arguments and what it did

engineVars == <<mode, locator, includeFull, server, nodesLeft, linksLeft, visited, stack,
                outcome, nodeFetches, consoleFetches>>
locVars == <<segments, number, resolution>>
watchVars == <<locators, options, builds, atStart, phase, pipelineStates, recentFailures,
               latestFailure, isRunning, isPolling, hasPolledOnce, hasCleanedUp,
               pollIntervalId, pollStep, allNewFailures, sent, notified>>
cliVars == <<command>>
vars == <<engineVars, locVars, watchVars, cliVars>>

\* no command-line call in hand
CliIdle == command = [op |-> "none"]

\* watchCommand has not been called
WatchIdle ==
  /\ locators = <<>> /\ options = <<>> /\ builds = <<>> /\ atStart = 0
  /\ phase = "none" /\ pipelineStates = <<>> /\ recentFailures = <<>>
  /\ latestFailure = <<>> /\ isRunning = FALSE /\ isPolling = FALSE
  /\ hasPolledOnce = FALSE /\ hasCleanedUp = FALSE /\ pollIntervalId = FALSE
  /\ pollStep = "idle" /\ allNewFailures = <<>> /\ sent = 0 /\ notified = <<>>

\* `${pipelineInfo.path}/${pipelineInfo.buildNumber}`
Key(pipelineInfo) ==
  pipelineInfo.path \o <<"/">> \o NumToText(pipelineInfo.buildNumber)

Info(parsed) == [path |-> parsed.path, buildNumber |-> parsed.buildNumber]

\* one FailureReport, without and with consoleOutput
Report(pipelineInfo, node) ==
  [pipeline |-> pipelineInfo.path,
   buildNumber |-> pipelineInfo.buildNumber,
   nodeId |-> node.id,
   displayName |-> node.displayName,
   result |-> node.result,
   url |-> buildNodeWebUrl(JenkinsUrl, pipelineInfo, node.id)]

ReportWithConsole(pipelineInfo, node, consoleOutput) ==
  [pipeline |-> pipelineInfo.path,
   buildNumber |-> pipelineInfo.buildNumber,
   nodeId |-> node.id,
   displayName |-> node.displayName,
   result |-> node.result,
   url |-> buildNodeWebUrl(JenkinsUrl, pipelineInfo, node.id),
   consoleOutput |-> consoleOutput]

\* variant: every step that did not succeed counts as failed
FailedNodesNotSuccess(nodes) == SelectSeq(nodes, LAMBDA node : node.result # "SUCCESS")

\* nodes.filter((node) => node.result === "FAILURE")
FailedNodes(nodes) == SelectSeq(nodes, LAMBDA node : node.result = "FAILURE")

\* variant: only the actions of failed nodes are scanned
RECURSIVE ActionHrefsOfFailed(_)
ActionHrefsOfFailed(nodes) ==
  IF nodes = <<>> THEN <<>>
  ELSE LET as == IF Head(nodes).result = "FAILURE" THEN Head(nodes).actions ELSE <<>>
           linked == SelectSeq(as, LAMBDA action : action.link # NoHref)
       IN  [i \in 1..Len(linked) |-> linked[i].link] \o ActionHrefsOfFailed(Tail(nodes))

\* the hrefs of all actions of all nodes, in scan order
RECURSIVE ActionHrefs(_)
ActionHrefs(nodes) ==
  IF nodes = <<>> THEN <<>>
  ELSE LET as == Head(nodes).actions
           linked == SelectSeq(as, LAMBDA action : action.link # NoHref)
       IN  [i \in 1..Len(linked) |-> linked[i].link] \o ActionHrefs(Tail(nodes))

\* validLinks.filter(...) with the `seen` set: the first link of each key stays
RECURSIVE DedupByKey(_, _)
DedupByKey(links, seen) ==
  IF links = <<>> THEN <<>>
  ELSE IF Key(Head(links)) \in seen THEN DedupByKey(Tail(links), seen)
  ELSE <<Head(links)>> \o DedupByKey(Tail(links), seen \cup {Key(Head(links))})

\* variant: the first href that does not resolve ends the scan
RECURSIVE ResolvedPrefix(_)
ResolvedPrefix(results) ==
  IF results = <<>> \/ ~Head(results).ok THEN <<>>
  ELSE <<Info(Head(results))>> \o ResolvedPrefix(Tail(results))
extractSubBuildLinksUntilInvalid(nodes) ==
  LET hrefs == ActionHrefs(nodes)
  IN  DedupByKey(ResolvedPrefix([i \in 1..Len(hrefs) |-> parseLocator(hrefs[i])]), {})

extractSubBuildLinks(nodes) ==
  LET hrefs == ActionHrefs(nodes)
      results == [i \in 1..Len(hrefs) |-> parseLocator(hrefs[i])]
      valid == SelectSeq(results, LAMBDA parsed : parsed.ok)
      validLinks == [i \in 1..Len(valid) |-> Info(valid[i])]
  IN  DedupByKey(validLinks, {})

\* a call in progress: the step list is awaited (phase "nodes"), then the console
\* texts of `todo`, then the effects of `subs`
NewCall(pipelineInfo) ==
  [info |-> pipelineInfo, phase |-> "nodes", nodes |-> <<>>, todo |-> <<>>,
   current |-> <<>>, subs |-> <<>>, sub |-> <<>>]

\* variant: the visited test is left out
RECURSIVE ClaimAllNoGuard(_, _)
ClaimAllNoGuard(links, seen) ==
  IF links = <<>> THEN [claimed |-> <<>>, visited |-> seen]
  ELSE LET rest == ClaimAllNoGuard(Tail(links), seen \cup {Key(Head(links))})
       IN  [claimed |-> <<Head(links)>> \o rest.claimed, visited |-> rest.visited]

\* variant: visited.add(key) is left out
RECURSIVE ClaimAllNoAdd(_, _)
ClaimAllNoAdd(links, seen) ==
  IF links = <<>> THEN [claimed |-> <<>>, visited |-> seen]
  ELSE LET rest == ClaimAllNoAdd(Tail(links), seen)
       IN  IF Key(Head(links)) \in seen THEN rest
           ELSE [claimed |-> <<Head(links)>> \o rest.claimed, visited |-> rest.visited]

\* subBuildLinks.map(buildFailureReportRecursive ...): each call tests and marks
\* `visited` when it is made, before any of the returned effects runs
RECURSIVE ClaimAll(_, _)
ClaimAll(links, seen) ==
  IF links = <<>> THEN [claimed |-> <<>>, visited |-> seen]
  ELSE LET key == Key(Head(links))
       IN  IF key \in seen THEN ClaimAll(Tail(links), seen)
           ELSE LET rest == ClaimAll(Tail(links), seen \cup {key})
                IN  [claimed |-> <<Head(links)>> \o rest.claimed,
                     visited |-> rest.visited]

Running == [state |-> "running"]
Succeeded(reports) == [state |-> "ok", value |-> reports]
Failed(error) == [state |-> "failed", error |-> error]

SetTop(stk, frame) == [stk EXCEPT ![Len(stk)] = frame]
Pop(stk) == SubSeq(stk, 1, Len(stk) - 1)

\* variant: [...sub, ...current]
CombineSubFirst(current, sub) == sub \o current

\* [...current, ...sub]
Combine(current, sub) == current \o sub

\* variant: a level goes on with its first sub-build only and returns without the
\* others
RECURSIVE SettleUnjoined(_, _, _)
SettleUnjoined(m, stk, seen) ==
  LET top == stk[Len(stk)]
  IN  IF top.phase = "nodes" \/ (top.phase = "console" /\ top.todo # <<>>)
      THEN [stack |-> stk, visited |-> seen, outcome |-> Running]
      ELSE IF top.phase = "console" /\ m = "recursive"
      THEN LET c == ClaimAll(extractSubBuildLinks(top.nodes), seen)
           IN  SettleUnjoined(m, SetTop(stk, [top EXCEPT !.phase = "subs",
                                                         !.subs = c.claimed]),
                              c.visited)
      ELSE IF top.phase = "subs" /\ top.subs # <<>>
      THEN [stack |-> Append(SetTop(stk, [top EXCEPT !.subs = <<>>]),
                             NewCall(Head(top.subs))),
            visited |-> seen, outcome |-> Running]
      ELSE LET reports == Combine(top.current, top.sub)
           IN  IF Len(stk) = 1
               THEN [stack |-> <<>>, visited |-> seen, outcome |-> Succeeded(reports)]
               ELSE LET parent == stk[Len(stk) - 1]
                    IN  SettleUnjoined(m, SetTop(Pop(stk),
                                                 [parent EXCEPT !.sub = @ \o reports]),
                                       seen)

\* run the synchronous part of the effect up to its next request, or to its end
RECURSIVE Settle(_, _, _)
Settle(m, stk, seen) ==
  LET top == stk[Len(stk)]
  IN  IF top.phase = "nodes" \/ (top.phase = "console" /\ top.todo # <<>>)
      THEN [stack |-> stk, visited |-> seen, outcome |-> Running]
      ELSE IF top.phase = "console" /\ m = "recursive"
      THEN LET c == ClaimAll(extractSubBuildLinks(top.nodes), seen)
           IN  Settle(m, SetTop(stk, [top EXCEPT !.phase = "subs", !.subs = c.claimed]),
                      c.visited)
      ELSE IF top.phase = "subs" /\ top.subs # <<>>
      THEN [stack |-> Append(SetTop(stk, [top EXCEPT !.subs = Tail(@)]),
                             NewCall(Head(top.subs))),
            visited |-> seen, outcome |-> Running]
      ELSE LET reports == Combine(top.current, top.sub)
           IN  IF Len(stk) = 1
               THEN [stack |-> <<>>, visited |-> seen, outcome |-> Succeeded(reports)]
               ELSE LET parent == stk[Len(stk) - 1]
                    IN  Settle(m, SetTop(Pop(stk), [parent EXCEPT !.sub = @ \o reports]),
                               seen)

\* variants: no catchTag, and Effect.catchAll
CaughtNever(error) == FALSE
CaughtAll(error) == TRUE

\* Effect.catchTag("BuildNotFoundError", () => Effect.succeed([])) around a sub-build
Caught(error) == error.tag = "BuildNotFoundError"

\* an error leaves the call on top of the stack
RECURSIVE Raise(_, _, _, _)
Raise(m, stk, seen, error) ==
  IF Len(stk) = 1 THEN [stack |-> <<>>, visited |-> seen, outcome |-> Failed(error)]
  ELSE IF Caught(error) THEN Settle(m, Pop(stk), seen)
  ELSE Raise(m, Pop(stk), seen, error)

\* variant: the mapError is left out
MapFetchErrorNone(pipelineInfo, error) == error

\* Effect.mapError of buildFailureReportRecursive
MapFetchError(pipelineInfo, error) ==
  IF error.tag = "NetworkError" /\ error.statusCode = 404
  THEN BuildNotFoundError(pipelineInfo)
  ELSE error

\* buildFailureReport pipes getValidated into flatMap with no mapError
ShallowFetchError(pipelineInfo, error) == error

\* variant: the console text is fetched whatever includeFull is
ConsoleNodesAlways(full, failedNodes) == failedNodes

\* the failed nodes whose console text is fetched: `if (includeFull)`
ConsoleNodes(full, failedNodes) == IF full THEN failedNodes ELSE <<>>

\* the reports made without a request: the `else` branch, Effect.succeed
PlainReports(full, pipelineInfo, failedNodes) ==
  IF full THEN <<>>
  ELSE [i \in 1..Len(failedNodes) |-> Report(pipelineInfo, failedNodes[i])]

Init ==
  /\ mode = "idle"
  /\ locator = <<>>
  /\ includeFull = FALSE
  /\ server = <<>>
  /\ nodesLeft = MaxNodes
  /\ linksLeft = MaxLinks
  /\ visited = {}
  /\ stack = <<>>
  /\ outcome = [state |-> "idle"]
  /\ nodeFetches = <<>>
  /\ consoleFetches = <<>>
  /\ segments = <<>>
  /\ number = <<>>
  /\ resolution = [op |-> "none"]
  /\ WatchIdle
  /\ CliIdle

Continue(st) ==
  /\ stack' = st.stack
  /\ visited' = st.visited
  /\ outcome' = st.outcome

\* getFailureReport(locator, includeFull) / getFailureReportRecursive(locator, includeFull)
Call(m, text, full) ==
  /\ mode = "idle"
  /\ mode' = m
  /\ locator' = text
  /\ includeFull' = full
  /\ LET parsed == parseLocator(text)
     IN  IF ~parsed.ok
         THEN /\ outcome' = Failed(parsed.error)
              /\ UNCHANGED <<stack, visited>>
         ELSE /\ outcome' = Running
              /\ stack' = <<NewCall(Info(parsed))>>
              /\ visited' = IF m = "recursive" THEN {Key(Info(parsed))} ELSE {}
  /\ UNCHANGED <<server, nodesLeft, linksLeft, nodeFetches, consoleFetches>>
  /\ UNCHANGED <<locVars, watchVars, cliVars>>

\* the answers the server can give to a request for a step list
Answers(m) ==
  {[ok |-> FALSE, error |-> e] : e \in getValidatedErrors} \cup
  {[ok |-> TRUE, nodes |-> BuildNodes(shapes)] :
     shapes \in ShapeLists(IF m = "shallow" THEN BuildResults ELSE WalkResults,
                           ActionSet(m),
                           Min(nodesLeft, MaxBuildNodes), Min(linksLeft, MaxBuildLinks))}

\* client.getValidated(buildNodesApiPath(pipelineInfo), BuildNodesResponseSchema) ends
FetchNodes ==
  /\ stack # <<>> /\ Len(stack) <= MaxDepth
  /\ LET top == stack[Len(stack)]
         path == buildNodesApiPath(top.info)
     IN  /\ top.phase = "nodes"
         /\ nodeFetches' = Append(nodeFetches, path)
         /\ \E answer \in (IF path \in DOMAIN server THEN {server[path]} ELSE Answers(mode)) :
              /\ server' = (path :> answer) @@ server
              /\ IF answer.ok
                 THEN LET failedNodes == FailedNodes(answer.nodes)
                          frame == [top EXCEPT
                                      !.phase = "console",
                                      !.nodes = answer.nodes,
                                      !.todo = ConsoleNodes(includeFull, failedNodes),
                                      !.current = PlainReports(includeFull, top.info, failedNodes)]
                      IN  /\ nodesLeft' = IF path \in DOMAIN server THEN nodesLeft
                                          ELSE nodesLeft - Len(answer.nodes)
                          /\ linksLeft' = IF path \in DOMAIN server THEN linksLeft
                                          ELSE linksLeft - CountActions(answer.nodes)
                          /\ Continue(Settle(mode, SetTop(stack, frame), visited))
                 ELSE /\ UNCHANGED <<nodesLeft, linksLeft>>
                      /\ Continue(Raise(mode, stack, visited,
                                        IF mode = "recursive"
                                        THEN MapFetchError(top.info, answer.error)
                                        ELSE ShallowFetchError(top.info, answer.error)))
  /\ UNCHANGED <<mode, locator, includeFull, consoleFetches>>
  /\ UNCHANGED <<locVars, watchVars, cliVars>>

\* client.getText(buildNodeConsoleApiPath(pipelineInfo, node.id)) ends
FetchConsole ==
  /\ stack # <<>>
  /\ LET top == stack[Len(stack)]
     IN  /\ top.phase = "console" /\ top.todo # <<>>
         /\ LET node == Head(top.todo)
                path == buildNodeConsoleApiPath(top.info, node.id)
            IN  \/ LET frame == [top EXCEPT
                                      !.todo = Tail(@),
                                      !.current = Append(@, ReportWithConsole(top.info, node, path))]
                      IN  /\ consoleFetches' = Append(consoleFetches, [path |-> path, ok |-> TRUE])
                          /\ Continue(Settle(mode, SetTop(stack, frame), visited))
                   \/ \E error \in getTextErrors :
                        /\ consoleFetches' = Append(consoleFetches, [path |-> path, ok |-> FALSE])
                        /\ Continue(Raise(mode, stack, visited, error))
  /\ UNCHANGED <<mode, locator, includeFull, server, nodesLeft, linksLeft, nodeFetches>>
  /\ UNCHANGED <<locVars, watchVars, cliVars>>

Next ==
  \/ \E m \in {"shallow", "recursive"}, text \in Locators, full \in BOOLEAN :
       Call(m, text, full)
  \/ FetchNodes
  \/ FetchConsole

Spec == Init /\ [][Next]_vars

\* a request is outstanding: FetchNodes or FetchConsole can happen
Busy ==
  /\ stack # <<>>
  /\ stack[Len(stack)].phase = "nodes" => Len(stack) <= MaxDepth

\* every request the client makes ends (makeRequest aborts after 30 seconds):
\* weak fairness of the two fetch steps, with their enabling condition written out
Fairness == []<>(~Busy) \/ []<><<TRUE>>_vars
FairSpec == Spec /\ Fairness

Done == outcome.state \in {"ok", "failed"}

---------------------------------------------------------------------------
(* Resolver runs: a text is written from path segments and a build number  *)
(* in one of the formats, and the resolvers of index.ts are applied        *)

\* segments written into one text
MaxSegs == 3

\* segments a text can carry: plain names, names that are also format keywords,
\* an encoded space, a number, traversal segments plain and encoded, an encoded
\* slash, and a character outside the allow-list
SegPool ==
  {<<"A">>, <<"job">>, <<"pipelines">>, <<"runs">>, <<"a", "%", "2", "0", "b">>, <<"5">>,
   <<".", ".">>, <<".">>, <<"%", "2", "E", "%", "2", "E">>, <<"%", "2", "F">>, <<"x", ":">>}
NumberPool == {<<"7">>, <<"4", "2">>}
NodeIdText == <<"3">>

RECURSIVE SegLists(_)
SegLists(n) ==
  IF n <= 0 THEN {<<>>}
  ELSE {<<>>} \cup {<<seg>> \o rest : seg \in SegPool, rest \in SegLists(n - 1)}

BaseUrl == StripTrailingSlash(JenkinsUrl)
BlueRoot == <<"/", "blue", "/", "organizations", "/", "jenkins", "/", "pipelines", "/">>

RECURSIVE JobParts(_)
\* /job/A/job/B
JobParts(segs) ==
  IF segs = <<>> THEN <<>> ELSE <<"/", "job", "/">> \o Head(segs) \o JobParts(Tail(segs))

\* the texts a build is written as (index.ts, "Supported formats" 1 to 4)
BuildFormats == {"jobUrl", "pipelineUrl", "pathWithBuild", "pathWithRuns"}
WriteBuild(format, segs, digits) ==
  CASE format = "jobUrl" -> BaseUrl \o JobParts(segs) \o <<"/">> \o digits \o <<"/">>
    [] format = "pipelineUrl" -> BaseUrl \o BlueRoot \o Join(segs) \o <<"/", "runs", "/">> \o digits
    [] format = "pathWithBuild" -> <<"pipelines", "/">> \o Join(segs) \o <<"/">> \o digits
    [] format = "pathWithRuns" -> <<"pipelines", "/">> \o Join(segs) \o <<"/", "runs", "/">> \o digits

\* the texts a job is written as
JobFormats == {"jobUrl", "pipelineUrl", "path"}
WriteJob(format, segs) ==
  CASE format = "jobUrl" -> BaseUrl \o JobParts(segs) \o <<"/">>
    [] format = "pipelineUrl" -> BaseUrl \o BlueRoot \o Join(segs) \o <<"/">>
    [] format = "path" -> <<"pipelines", "/">> \o Join(segs)

\* .../pipelines/Project/Branch/detail/Branch/BuildNumber/pipeline/NodeId
WriteNodeUrl(segs, digits, nodeId) ==
  BaseUrl \o BlueRoot \o Join(segs) \o <<"/", "detail", "/">> \o segs[Len(segs)]
    \o <<"/">> \o digits \o <<"/", "pipeline", "/">> \o nodeId

EngineIdle ==
  /\ mode = "idle" /\ locator = <<>> /\ includeFull = FALSE /\ server = <<>>
  /\ nodesLeft = MaxNodes /\ linksLeft = MaxLinks /\ visited = {} /\ stack = <<>>
  /\ outcome = [state |-> "idle"] /\ nodeFetches = <<>> /\ consoleFetches = <<>>

LocInit ==
  /\ EngineIdle
  /\ segments \in SegLists(MaxSegs) \ {<<>>}
  /\ number \in NumberPool
  /\ resolution = [op |-> "none"]
  /\ WatchIdle
  /\ CliIdle

\* parseLocator applied to the build written in each format
ResolveBuild ==
  /\ resolution.op = "none"
  /\ resolution' = [op |-> "parseLocator",
                    out |-> [f \in BuildFormats |->
                               parseLocator(WriteBuild(f, segments, number))]]
  /\ UNCHANGED <<engineVars, segments, number, watchVars, cliVars>>

\* parseJobLocator applied to the job written in each format
ResolveJob ==
  /\ resolution.op = "none"
  /\ resolution' = [op |-> "parseJobLocator",
                    out |-> [f \in JobFormats |-> parseJobLocator(WriteJob(f, segments))]]
  /\ UNCHANGED <<engineVars, segments, number, watchVars, cliVars>>

\* parseNodeUrl applied to the node URL
ResolveNode ==
  /\ resolution.op = "none"
  /\ resolution' = [op |-> "parseNodeUrl",
                    out |-> parseNodeUrl(WriteNodeUrl(segments, number, NodeIdText))]
  /\ UNCHANGED <<engineVars, segments, number, watchVars, cliVars>>

\* a resolved coordinate is turned into the request path and the human-facing
\* URLs, and these are resolved again
Rebuild(format) ==
  /\ resolution.op = "parseLocator"
  /\ resolution.out[format].ok
  /\ LET c == Info(resolution.out[format])
     IN  resolution' =
           [op |-> "rebuild", format |-> format, coordinate |-> c,
            fromApiPath |-> parseLocator(buildNodesApiPath(c)),
            fromWebUrl |-> parseLocator(buildWebUrl(JenkinsUrl, c)),
            fromNodeWebUrl |-> parseNodeUrl(buildNodeWebUrl(JenkinsUrl, c, NodeIdText))]
  /\ UNCHANGED <<engineVars, segments, number, watchVars, cliVars>>

LocNext ==
  \/ ResolveBuild
  \/ ResolveJob
  \/ ResolveNode
  \/ \E format \in BuildFormats : Rebuild(format)

LocSpec == LocInit /\ [][LocNext]_vars

---------------------------------------------------------------------------
(* Watch: src/cli/commands/watch.ts. One pipeline is watched; the server   *)
(* numbers its builds 1, 2, ... and a build without result is running      *)

\* builds the server ever holds when their results vary
MaxBuilds == 3
\* builds the server ever holds when the job fails build after build
MaxBacklog == 11

MAX_RECENT_FAILURES == 10
\* options.limit ?? 20
DefaultLimit == 20

WatchResults == {"SUCCESS", "FAILURE", NULL}
watchLocator == <<"pipelines", "/", "A">>
badWatchLocator == <<"A">>

\* BuildSummary: the id is a string of digits
BuildSummary(n) == [id |-> NumToText(n), result |-> builds[n]]

\* what operations.getBuilds(locator, limit) answers when the request succeeds:
\* the `limit` most recent builds, newest first
getBuilds(limit) ==
  [i \in 1..Min(limit, Len(builds)) |-> BuildSummary(Len(builds) + 1 - i)]

\* Effect.catchAll(() => Effect.succeed([])) around getBuilds
GetBuildsOrEmpty(succeeds, limit) == IF succeeds THEN getBuilds(limit) ELSE <<>>

RECURSIVE MaxId(_)
\* Math.max(...buildIds)
MaxId(result) ==
  IF Len(result) = 1 THEN ParseInt(result[1].id)
  ELSE LET rest == MaxId(Tail(result))
           first == ParseInt(result[1].id)
       IN  IF first >= rest THEN first ELSE rest

\* FailedBuild of the watched pipeline
FailedBuild(build) == [locator |-> watchLocator \o <<"/">> \o build.id \o <<"/">>, build |-> build]

RECURSIVE NewFailures(_, _)
\* checkPipeline: the builds above the high water mark whose result is FAILURE
NewFailures(result, highWaterMark) ==
  IF result = <<>> THEN <<>>
  ELSE LET build == Head(result)
           rest == NewFailures(Tail(result), highWaterMark)
       IN  IF ParseInt(build.id) > highWaterMark /\ build.result = "FAILURE"
           THEN <<FailedBuild(build)>> \o rest
           ELSE rest

\* the unshift without the splice
UnshiftAll(list, new) == new \o list

\* recentFailures.unshift(...allNewFailures) and the splice that follows
Unshift(list, new) ==
  LET joined == new \o list
  IN  IF Len(joined) > MAX_RECENT_FAILURES THEN SubSeq(joined, 1, MAX_RECENT_FAILURES)
      ELSE joined

\* a job of which every build so far has failed
Backlog(n) == [i \in 1..n |-> "FAILURE"]

LocIdle == segments = <<>> /\ number = <<>> /\ resolution = [op |-> "none"]

\* watchCommand is called: the handlers are installed and initialize starts
WatchInit ==
  /\ EngineIdle
  /\ LocIdle
  /\ CliIdle
  /\ locators \in {<<watchLocator>>, <<badWatchLocator>>}
  /\ options \in [noNotify : BOOLEAN, limit : {1, DefaultLimit}]
  /\ builds \in SeqsUpTo(WatchResults, MaxBuilds - 1)
                \cup {Backlog(n) : n \in MaxBuilds..(MaxBacklog - 1)}
  /\ atStart = Len(builds)
  /\ phase = "initialize"
  /\ pipelineStates = <<>>
  /\ recentFailures = <<>>
  /\ latestFailure = <<>>
  /\ isRunning = TRUE
  /\ isPolling = FALSE
  /\ hasPolledOnce = FALSE
  /\ hasCleanedUp = FALSE
  /\ pollIntervalId = FALSE
  /\ pollStep = "idle"
  /\ allNewFailures = <<>>
  /\ sent = 0
  /\ notified = <<>>

serverVars == <<builds, atStart>>
argVars == <<locators, options>>

\* the server starts a build
NewBuild(result) ==
  /\ phase # "none"
  /\ \/ Len(builds) < MaxBuilds
     \/ Len(builds) < MaxBacklog /\ builds = Backlog(Len(builds)) /\ result = "FAILURE"
  /\ builds' = Append(builds, result)
  /\ UNCHANGED <<engineVars, locVars, cliVars, argVars, atStart, phase, pipelineStates,
                 recentFailures, latestFailure, isRunning, isPolling, hasPolledOnce,
                 hasCleanedUp, pollIntervalId, pollStep, allNewFailures, sent, notified>>

\* a running build ends
FinishBuild(n, result) ==
  /\ phase # "none"
  /\ n \in 1..Len(builds)
  /\ builds[n] = NULL
  /\ builds' = [builds EXCEPT ![n] = result]
  /\ UNCHANGED <<engineVars, locVars, cliVars, argVars, atStart, phase, pipelineStates,
                 recentFailures, latestFailure, isRunning, isPolling, hasPolledOnce,
                 hasCleanedUp, pollIntervalId, pollStep, allNewFailures, sent, notified>>

\* cleanup(), called by q, Ctrl+C or SIGINT; the handlers are removed by it
Cleanup ==
  /\ phase # "none"
  /\ ~hasCleanedUp
  /\ hasCleanedUp' = TRUE
  /\ isRunning' = FALSE
  /\ pollIntervalId' = FALSE
  /\ UNCHANGED <<engineVars, locVars, cliVars, argVars, serverVars, phase, pipelineStates,
                 recentFailures, latestFailure, isPolling, hasPolledOnce, pollStep,
                 allNewFailures, sent, notified>>

\* initialize finds no valid locator: "No valid pipelines to watch"
InitializeInvalid ==
  /\ phase = "initialize"
  /\ ~parseJobLocator(locators[1]).ok
  /\ phase' = "ended"
  /\ hasCleanedUp' = TRUE
  /\ isRunning' = FALSE
  /\ pollIntervalId' = FALSE
  /\ UNCHANGED <<engineVars, locVars, cliVars, argVars, serverVars, pipelineStates, recentFailures,
                 latestFailure, isPolling, hasPolledOnce, pollStep, allNewFailures, sent,
                 notified>>

\* initialize: the startup getBuilds(locator, 1) is answered, the high water mark
\* is recorded and the first poll is called
InitializeFetched(succeeds) ==
  /\ phase = "initialize"
  /\ parseJobLocator(locators[1]).ok
  /\ LET fetched == GetBuildsOrEmpty(succeeds, 1)
         highWaterMark == IF Len(fetched) > 0 THEN ParseInt(fetched[1].id) ELSE 0
     IN  pipelineStates' = <<[locator |-> locators[1], highWaterMark |-> highWaterMark]>>
  /\ IF isRunning /\ ~isPolling
     THEN /\ isPolling' = TRUE
          /\ pollStep' = "checkPipeline"
          /\ phase' = "firstPoll"
          /\ UNCHANGED pollIntervalId
     ELSE /\ phase' = "interval"
          /\ pollIntervalId' = TRUE
          /\ UNCHANGED <<isPolling, pollStep>>
  /\ UNCHANGED <<engineVars, locVars, cliVars, argVars, serverVars, recentFailures, latestFailure,
                 isRunning, hasPolledOnce, hasCleanedUp, allNewFailures, sent, notified>>

\* variant: poll looks at isRunning only
PollReturnsWhenStopped == ~isRunning

\* the first statement of poll: if (!isRunning || isPolling) return
PollReturnsAtOnce == ~isRunning \/ isPolling

\* poll() is called by the interval timer or by the r key; it returns at once when
\* watch is stopped or a poll is in progress, and it has nothing to await while
\* initialize has not yet recorded a pipeline
PollCalled(byKey) ==
  /\ phase # "none"
  /\ IF byKey THEN ~hasCleanedUp /\ ~isPolling ELSE pollIntervalId
  /\ IF PollReturnsAtOnce
     THEN UNCHANGED <<isPolling, pollStep, hasPolledOnce>>
     ELSE IF pipelineStates = <<>>
          THEN hasPolledOnce' = TRUE /\ UNCHANGED <<isPolling, pollStep>>
          ELSE isPolling' = TRUE /\ pollStep' = "checkPipeline" /\ UNCHANGED hasPolledOnce
  /\ UNCHANGED <<engineVars, locVars, cliVars, argVars, serverVars, phase, pipelineStates,
                 recentFailures, latestFailure, isRunning, hasCleanedUp, pollIntervalId,
                 allNewFailures, sent, notified>>

\* checkPipeline from the answer of getBuilds on
CheckPipelineAnswered(result) ==
  /\ pollStep = "checkPipeline"
  /\ LET state == pipelineStates[1]
     IN  /\ allNewFailures' = NewFailures(result, state.highWaterMark)
         /\ pipelineStates' =
              IF Len(result) > 0
              THEN <<[state EXCEPT !.highWaterMark = MaxId(result)]>>
              ELSE pipelineStates
  /\ pollStep' = "notify"
  /\ sent' = 0
  /\ UNCHANGED <<engineVars, locVars, cliVars, argVars, serverVars, phase, recentFailures,
                 latestFailure, isRunning, isPolling, hasPolledOnce, hasCleanedUp,
                 pollIntervalId, notified>>

\* checkPipeline: getBuilds(state.locator, limit) is answered
CheckPipeline(succeeds) == CheckPipelineAnswered(GetBuildsOrEmpty(succeeds, options.limit))

\* the list a server that lags behind answers: the builds it held when build k was
\* the newest, newest first
StaleBuilds(k, limit) == [i \in 1..Min(limit, k) |-> BuildSummary(k + 1 - i)]

\* checkPipeline: getBuilds is answered with an older list; such answers are
\* counted in only for a job of at most MaxBuilds builds and while fewer
\* notifications than builds have been sent
CheckPipelineStale(k) ==
  /\ k \in 1..(Len(builds) - 1)
  /\ Len(builds) <= MaxBuilds
  /\ Len(notified) < Len(builds)
  /\ CheckPipelineAnswered(StaleBuilds(k, options.limit))

\* poll: notify(...) for the next new failure
Notify ==
  /\ pollStep = "notify"
  /\ ~options.noNotify
  /\ sent < Len(allNewFailures)
  /\ sent' = sent + 1
  /\ notified' = Append(notified, ParseInt(allNewFailures[sent + 1].build.id))
  /\ UNCHANGED <<engineVars, locVars, cliVars, argVars, serverVars, phase, pipelineStates,
                 recentFailures, latestFailure, isRunning, isPolling, hasPolledOnce,
                 hasCleanedUp, pollIntervalId, pollStep, allNewFailures>>

\* poll: the rest of the try block and the finally block; initialize sets the
\* interval timer when the poll it awaited has ended
PollEnd ==
  /\ pollStep = "notify"
  /\ options.noNotify \/ sent = Len(allNewFailures)
  /\ IF Len(allNewFailures) > 0 /\ ~options.noNotify
     THEN /\ recentFailures' = Unshift(recentFailures, allNewFailures)
          /\ latestFailure' = <<allNewFailures[1]>>
     ELSE UNCHANGED <<recentFailures, latestFailure>>
  /\ hasPolledOnce' = TRUE
  /\ isPolling' = FALSE
  /\ pollStep' = "idle"
  /\ allNewFailures' = <<>>
  /\ sent' = 0
  /\ IF phase = "firstPoll"
     THEN phase' = "interval" /\ pollIntervalId' = TRUE
     ELSE UNCHANGED <<phase, pollIntervalId>>
  /\ UNCHANGED <<engineVars, locVars, cliVars, argVars, serverVars, pipelineStates, isRunning,
                 hasCleanedUp, notified>>

WatchNext ==
  \/ \E result \in WatchResults : NewBuild(result)
  \/ \E n \in 1..MaxBuilds, result \in WatchResults \ {NULL} : FinishBuild(n, result)
  \/ Cleanup
  \/ InitializeInvalid
  \/ \E succeeds \in BOOLEAN : InitializeFetched(succeeds)
  \/ \E byKey \in BOOLEAN : PollCalled(byKey)
  \/ \E succeeds \in BOOLEAN : CheckPipeline(succeeds)
  \/ Notify
  \/ PollEnd

WatchSpec == WatchInit /\ [][WatchNext]_vars

\* watch against a server whose build lists may be older than the ones it gave before
WatchAnyNext ==
  \/ WatchNext
  \/ \E k \in 1..MaxBuilds : CheckPipelineStale(k)

WatchAnySpec == WatchInit /\ [][WatchAnyNext]_vars

\* the event loop runs what is ready: initialize goes on when its request is
\* answered, a poll in progress takes its next step (requests end, makeRequest
\* aborts after 30 seconds), and the interval timer fires while it is set
InitializePending == phase = "initialize"
PollPending == pollStep # "idle"
WatchFairness ==
  /\ []<>(~InitializePending)
       \/ []<><<InitializeInvalid \/ \E succeeds \in BOOLEAN : InitializeFetched(succeeds)>>_vars
  /\ []<>(~PollPending)
       \/ []<><<Notify \/ PollEnd \/ \E succeeds \in BOOLEAN : CheckPipeline(succeeds)>>_vars
  /\ WF_vars(PollCalled(FALSE))
WatchFairSpec == WatchSpec /\ WatchFairness

---------------------------------------------------------------------------
(* Command line: failuresCommand (src/cli/commands/failures.ts) and        *)
(* getExitCodeForError (src/lib/exit-codes.ts)                             *)

EXIT_CODES ==
  [SUCCESS |-> 0, FAILURES_FOUND |-> 1, CONFIG_ERROR |-> 2, AUTH_ERROR |-> 3,
   NETWORK_ERROR |-> 4, NOT_FOUND |-> 5, INVALID_ARGS |-> 64, INTERNAL_ERROR |-> 70]

\* the tagged errors of lib/effects, and two tags that are none of them
ErrorTags ==
  {"ConfigError", "ConfigNotFoundError", "NetworkError", "AuthenticationError",
   "ValidationError", "BuildNotFoundError", "NodeNotFoundError", "InvalidLocatorError"}
OtherTags == {"JenkinsError", "UnknownException"}

getExitCodeForError(error) ==
  CASE error._tag \in {"ConfigError", "ConfigNotFoundError"} -> EXIT_CODES.CONFIG_ERROR
    [] error._tag = "AuthenticationError" -> EXIT_CODES.AUTH_ERROR
    [] error._tag = "NetworkError" -> EXIT_CODES.NETWORK_ERROR
    [] error._tag \in {"BuildNotFoundError", "NodeNotFoundError"} -> EXIT_CODES.NOT_FOUND
    [] error._tag = "InvalidLocatorError" -> EXIT_CODES.INVALID_ARGS
    [] error._tag = "ValidationError" -> EXIT_CODES.INTERNAL_ERROR
    [] OTHER -> EXIT_CODES.INTERNAL_ERROR

\* --grep patterns: none, one that compiles, one with an unclosed group
NoGrep == <<>>
GrepPatterns == {NoGrep, <<"e", "r", "r">>, <<"(", "a">>}
CountOf(text, sym) == Cardinality({i \in 1..Len(text) : text[i] = sym})

\* validateGrepPattern on patterns without quantifiers: the length, alternation and
\* parenthesis checks; NULL when the pattern is accepted
validateGrepPattern(pattern) ==
  IF Len(pattern) > 200 THEN "Pattern too long (max 200 characters)"
  ELSE IF CountOf(pattern, "|") > 20 THEN "Pattern contains too many alternations (max 20)"
  ELSE IF CountOf(pattern, "(") # CountOf(pattern, ")")
       THEN "Pattern has unbalanced parentheses"
  ELSE NULL

\* FailuresOptions; an absent flag is FALSE, an absent --grep is the empty text
FailuresOptions ==
  [shallow : BOOLEAN, recursive : BOOLEAN, full : BOOLEAN, smart : BOOLEAN,
   tail : BOOLEAN, grep : GrepPatterns]

\* the variant in which recursion has to be asked for
getFailuresOnRequest(opts) == IF opts.recursive THEN "recursive" ELSE "shallow"

\* const useRecursive = !options.shallow; the operation getFailures then names
getFailures(opts) == IF ~opts.shallow THEN "recursive" ELSE "shallow"

\* needsFullConsole || needsExcerpt || false
IncludeConsole(opts) ==
  LET needsFullConsole == opts.full
      needsExcerpt == ~needsFullConsole /\ (opts.tail \/ opts.grep # NoGrep \/ opts.smart)
  IN  needsFullConsole \/ needsExcerpt

CliInit ==
  /\ EngineIdle
  /\ LocIdle
  /\ WatchIdle
  /\ command \in
       {[op |-> "failuresCommand", options |-> o, done |-> FALSE, called |-> "none",
         includeFull |-> FALSE, exit |-> -1] : o \in FailuresOptions}
       \cup
       {[op |-> "getExitCodeForError", error |-> [_tag |-> t], done |-> FALSE, exit |-> -1] :
          t \in ErrorTags \cup OtherTags}

\* failuresCommand up to the call of the operation it chose
FailuresCommand ==
  /\ command.op = "failuresCommand"
  /\ ~command.done
  /\ LET opts == command.options
         rejected == opts.grep # NoGrep /\ validateGrepPattern(opts.grep) # NULL
     IN  command' =
           IF rejected
           THEN [command EXCEPT !.done = TRUE, !.exit = 1]
           ELSE [command EXCEPT !.done = TRUE, !.called = getFailures(opts),
                                !.includeFull = IncludeConsole(opts)]
  /\ UNCHANGED <<engineVars, locVars, watchVars>>

\* getExitCodeForError(error)
ExitCodeForError ==
  /\ command.op = "getExitCodeForError"
  /\ ~command.done
  /\ command' = [command EXCEPT !.done = TRUE, !.exit = getExitCodeForError(command.error)]
  /\ UNCHANGED <<engineVars, locVars, watchVars>>

CliNext ==
  \/ FailuresCommand
  \/ ExitCodeForError

CliSpec == CliInit /\ [][CliNext]_vars

---------------------------------------------------------------------------
(* The build graph the server has shown, read off its answers              *)

Parsed == parseLocator(locator)
Root == Info(Parsed)
Called(m) == mode = m /\ Parsed.ok

Fetched(b) == buildNodesApiPath(b) \in DOMAIN server
Answer(b) == server[buildNodesApiPath(b)]
Answered(b) == Fetched(b) /\ Answer(b).ok

\* the coordinates the links of a step list resolve to
LinkTargets(nodes) ==
  LET hrefs == UNION {{nodes[i].actions[j].link : j \in 1..Len(nodes[i].actions)} :
                      i \in 1..Len(nodes)}
      results == {parseLocator(h) : h \in hrefs \ {NoHref}}
  IN  {Info(parsed) : parsed \in {r \in results : r.ok}}

Children(b) ==
  LET path == buildNodesApiPath(b)
  IN  IF path \in DOMAIN server /\ server[path].ok THEN LinkTargets(server[path].nodes)
      ELSE {}

RECURSIVE ReachFrom(_)
ReachFrom(bs) ==
  LET more == bs \cup UNION {Children(b) : b \in bs}
  IN  IF more = bs THEN bs ELSE ReachFrom(more)

\* the root and every build reachable from it through resolvable links
Reachable == ReachFrom({Root})

\* the (build, step) pairs a complete report holds
FailedSteps(b) ==
  LET path == buildNodesApiPath(b)
  IN  IF path \in DOMAIN server /\ server[path].ok
      THEN LET nodes == server[path].nodes
           IN  {<<b, nodes[i].id>> : i \in {k \in 1..Len(nodes) : nodes[k].result = "FAILURE"}}
      ELSE {}
ExpectedPairs == UNION {FailedSteps(b) : b \in Reachable}

ReportBuild(r) == [path |-> r.pipeline, buildNumber |-> r.buildNumber]
ReportPairs(reports) ==
  {<<ReportBuild(reports[i]), reports[i].nodeId>> : i \in 1..Len(reports)}
ExactlyOnce(reports, pairs) ==
  ReportPairs(reports) = pairs /\ Len(reports) = Cardinality(pairs)

AllAnswersOk == \A p \in DOMAIN server : server[p].ok
ErrorAnswers == {server[p].error : p \in {q \in DOMAIN server : ~server[q].ok}}
AllConsoleOk == \A i \in 1..Len(consoleFetches) : consoleFetches[i].ok
SubBuilds == {b \in Reachable : b # Root /\ Fetched(b)}

\* two different answered builds link to each other
Cyclic == \E x, y \in Reachable : x # y /\ y \in Children(x) /\ x \in Children(y)
\* one build is linked by two different builds
Diamond ==
  \E b, x, y \in Reachable :
    x # y /\ b # x /\ b # y /\ b \in Children(x) /\ b \in Children(y)

\* the nesting of recursive calls stays below the cap of the model
DepthWithinCap == Len(stack) < MaxDepth

---------------------------------------------------------------------------
(* Claims                                                                  *)

\* C1: every call of getFailureReportRecursive ends, with a list or an error,
\* whatever the links between the builds and whatever the fetches answer
C1_Terminates == (mode = "recursive") ~> Done
C1_Witness == Called("recursive") /\ outcome.state = "ok" /\ Cyclic

\* C2: when every fetch succeeds the recursive call succeeds, and its list holds
\* each failed step of each reachable build exactly once
C2_CompleteOnce ==
  (Called("recursive") /\ Done /\ AllAnswersOk /\ AllConsoleOk) =>
    /\ outcome.state = "ok"
    /\ \A b \in Reachable : Fetched(b)
    /\ ExactlyOnce(outcome.value, ExpectedPairs)
C2_Witness ==
  /\ Called("recursive") /\ outcome.state = "ok" /\ AllAnswersOk
  /\ \E b, x, y \in Reachable :
       /\ x # y /\ b # x /\ b # y /\ b \in Children(x) /\ b \in Children(y)
       /\ FailedSteps(b) # {}

\* C3: within one recursive call no step list is requested twice
C3_FetchedOnce ==
  mode = "recursive" =>
    \A i, j \in 1..Len(nodeFetches) : i # j => nodeFetches[i] # nodeFetches[j]
C3_Witness ==
  /\ Called("recursive") /\ Done /\ Diamond /\ Cyclic

\* C4: sub-builds whose step list is not found leave the call successful; the list
\* holds the failed steps of the root and of the sub-builds that answered
C4_MissingSubBuild ==
  (/\ Called("recursive") /\ Done /\ Answered(Root) /\ AllConsoleOk
   /\ ErrorAnswers = {NetworkError404}) =>
    /\ outcome.state = "ok"
    /\ ExactlyOnce(outcome.value, ExpectedPairs)
    /\ \A i \in 1..Len(outcome.value) : Answered(ReportBuild(outcome.value[i]))
C4_Witness ==
  /\ Called("recursive") /\ outcome.state = "ok" /\ ErrorAnswers = {NetworkError404}
  /\ FailedSteps(Root) # {}
  /\ \E b \in SubBuilds : FailedSteps(b) # {}

\* the error a step-list request of coordinate b must surface as: a 404 becomes
\* BuildNotFound with the coordinate, every other error stays as it is
Surfaced(b, error) ==
  IF error = NetworkError404
  THEN [tag |-> "BuildNotFoundError", pipeline |-> b.path, buildNumber |-> b.buildNumber]
  ELSE error

LastAnswer == server[nodeFetches[Len(nodeFetches)]]

\* C5 as claimed: whatever error the step-list request of a sub-build ends with,
\* the recursive call succeeds
C5_AnySubBuildError ==
  (Called("recursive") /\ Done /\ Answered(Root) /\ AllConsoleOk) => outcome.state = "ok"

\* C5 as amended: a sub-build that is not found adds nothing and the call succeeds;
\* an authentication, transport or validation error of a sub-build ends the whole
\* call with that error
C5_SubBuildErrors ==
  (Called("recursive") /\ Done /\ Answered(Root) /\ AllConsoleOk) =>
    IF ErrorAnswers \subseteq {NetworkError404}
    THEN /\ outcome.state = "ok"
         /\ \A i \in 1..Len(outcome.value) : Answered(ReportBuild(outcome.value[i]))
    ELSE /\ outcome = Failed(LastAnswer.error)
         /\ ErrorAnswers \ {NetworkError404} = {LastAnswer.error}
C5_Witness ==
  /\ Called("recursive") /\ Answered(Root) /\ AllConsoleOk
  /\ FailedSteps(Root) # {}
  /\ outcome = Failed(AuthenticationError)

\* C6: when the step list of the initial coordinate cannot be fetched the recursive
\* call fails: BuildNotFound with that coordinate for a 404, else the error itself
C6_RootFetchFails ==
  (Called("recursive") /\ Fetched(Root) /\ ~Answer(Root).ok) =>
    /\ outcome = Failed(Surfaced(Root, Answer(Root).error))
    /\ Len(nodeFetches) = 1
C6_Witness ==
  /\ mode = "recursive"
  /\ outcome = Failed([tag |-> "BuildNotFoundError",
                       pipeline |-> <<"pipelines", "/", "A">>, buildNumber |-> 1])

\* C7: the shallow report surfaces a 404 of its step-list request as BuildNotFound
\* with the coordinate, and every other error as it is
C7_ShallowNotFound ==
  (Called("shallow") /\ Fetched(Root) /\ ~Answer(Root).ok) =>
    outcome = Failed(Surfaced(Root, Answer(Root).error))

ConsolePath(pair) == buildNodeConsoleApiPath(pair[1], pair[2])
ConsolePaths == {consoleFetches[i].path : i \in 1..Len(consoleFetches)}

\* C8: a recursive call without includeFull requests no console text; a successful
\* one with includeFull requests the console text of each failed step met, once
C8_ConsoleFetches ==
  /\ (mode = "recursive" /\ ~includeFull) => consoleFetches = <<>>
  /\ (Called("recursive") /\ outcome.state = "ok" /\ includeFull) =>
       /\ ConsolePaths = {ConsolePath(pair) : pair \in ExpectedPairs}
       /\ Len(consoleFetches) = Cardinality(ExpectedPairs)
       /\ Len(consoleFetches) = Len(outcome.value)
C8_Witness ==
  /\ Called("recursive") /\ outcome.state = "ok" /\ includeFull
  /\ Len(consoleFetches) >= 2
  /\ \E b \in SubBuilds : FailedSteps(b) # {}

\* the place of a step in its step list, and of a sub-build among the links of the root
StepIndex(r) ==
  LET nodes == Answer(ReportBuild(r)).nodes
  IN  CHOOSE k \in 1..Len(nodes) : nodes[k].id = r.nodeId
Discovery(b) ==
  LET hrefs == ActionHrefs(Answer(Root).nodes)
      at == {k \in 1..Len(hrefs) : parseLocator(hrefs[k]).ok /\ Info(parseLocator(hrefs[k])) = b}
  IN  CHOOSE k \in at : \A other \in at : k <= other

\* C9: the list of a successful recursive call starts with the reports of the root
\* in step order, and the reports of the sub-builds follow in the order in which
\* their links are first met
C9_Order ==
  (Called("recursive") /\ outcome.state = "ok") =>
    LET v == outcome.value
        subs == Children(Root) \ {Root}
    IN  \A i, j \in 1..Len(v) :
          LET bi == ReportBuild(v[i])
              bj == ReportBuild(v[j])
          IN  /\ (i < j /\ bj = Root) => bi = Root
              /\ (i < j /\ bi = bj) => StepIndex(v[i]) < StepIndex(v[j])
              /\ (bi \in subs /\ bj \in subs /\ Discovery(bi) < Discovery(bj)) => i < j
C9_Witness ==
  /\ Called("recursive") /\ outcome.state = "ok"
  /\ FailedSteps(Root) # {}
  /\ \E x, y \in Children(Root) \ {Root} :
       x # y /\ FailedSteps(x) # {} /\ FailedSteps(y) # {}

NodeWithId(nodes, id) == nodes[CHOOSE k \in 1..Len(nodes) : nodes[k].id = id]

\* C10: the shallow report requests the step list of its coordinate once and no
\* other; its list holds one report for each step whose result is FAILURE, with the
\* coordinate, the id and name of the step and the URL of the step
C10_Shallow ==
  Called("shallow") =>
    /\ Len(nodeFetches) <= 1
    /\ \A i \in 1..Len(nodeFetches) : nodeFetches[i] = buildNodesApiPath(Root)
    /\ Done => Len(nodeFetches) = 1
    /\ outcome.state = "ok" =>
         LET v == outcome.value
             nodes == Answer(Root).nodes
         IN  /\ ExactlyOnce(v, FailedSteps(Root))
             /\ \A i \in 1..Len(v) :
                  /\ v[i].pipeline = Root.path
                  /\ v[i].buildNumber = Root.buildNumber
                  /\ v[i].displayName = NodeWithId(nodes, v[i].nodeId).displayName
                  /\ v[i].result = "FAILURE"
                  /\ v[i].url = buildWebUrl(JenkinsUrl, Root) \o <<"pipeline", "/", v[i].nodeId>>
C10_Witness ==
  /\ Called("shallow") /\ outcome.state = "ok" /\ Answered(Root)
  /\ Len(Answer(Root).nodes) = 2
  /\ Answer(Root).nodes[1].result = "UNSTABLE"
  /\ Answer(Root).nodes[1].actions # <<>>
  /\ Len(outcome.value) = 1
  /\ outcome.value[1].nodeId = "2"
  /\ outcome.value[1].url =
       <<"https", ":", "/", "/", "host", "/", "blue", "/", "organizations", "/",
         "jenkins", "/", "pipelines", "/", "A", "/", "detail", "/", "A", "/", "1",
         "/", "pipeline", "/", "2">>

\* an href that resolves to no coordinate, and a step list with these links taken out
Unresolved(href) == href # NoHref /\ ~parseLocator(href).ok
WithoutUnresolved(nodes) ==
  [i \in 1..Len(nodes) |->
     [nodes[i] EXCEPT !.actions = SelectSeq(@, LAMBDA action : ~Unresolved(action.link))]]
\* the step list carries hrefBad or hrefUnsafe
CarriesUnresolved(nodes) ==
  \E i \in 1..Len(nodes) : \E j \in 1..Len(nodes[i].actions) :
    nodes[i].actions[j].link \in {hrefBad, hrefUnsafe}

\* C11: a link whose href does not resolve (no locator format, or an unsafe path) is
\* no error and is not followed: the sub-builds of a step list that carries such links
\* are those of the list without them, the call never ends with InvalidLocator, only
\* the root and coordinates that links resolve to are requested, and when every
\* request succeeds the reports are those of the builds the other links lead to
C11_UnresolvedLinks ==
  Called("recursive") =>
    /\ (nodeFetches # <<>> /\ LastAnswer.ok /\ CarriesUnresolved(LastAnswer.nodes)) =>
         extractSubBuildLinks(LastAnswer.nodes)
           = extractSubBuildLinks(WithoutUnresolved(LastAnswer.nodes))
    /\ outcome.state = "failed" => outcome.error.tag # "InvalidLocatorError"
    /\ (Done /\ \E p \in DOMAIN server : server[p].ok /\ CarriesUnresolved(server[p].nodes)) =>
         LET answered == {p \in DOMAIN server : server[p].ok}
             met == {Root} \cup UNION {LinkTargets(server[p].nodes) : p \in answered}
             paths == {buildNodesApiPath(b) : b \in met}
         IN  /\ \A i \in 1..Len(nodeFetches) : nodeFetches[i] \in paths
             /\ (AllAnswersOk /\ AllConsoleOk) =>
                  /\ outcome.state = "ok"
                  /\ ReportPairs(outcome.value) = UNION {FailedSteps(b) : b \in met}
C11_Witness ==
  /\ Called("recursive") /\ outcome.state = "ok"
  /\ \E p, q \in DOMAIN server : server[p].ok /\ server[q].ok /\
       hrefBad \in {ActionHrefs(server[q].nodes)[k] : k \in 1..Len(ActionHrefs(server[q].nodes))} /\
       LET hrefs == ActionHrefs(server[p].nodes)
       IN  /\ Len(hrefs) >= 2
           /\ hrefs[1] = hrefUnsafe
           /\ parseLocator(hrefs[2]).ok
           /\ Info(parseLocator(hrefs[2])) # Root
           /\ FailedSteps(Info(parseLocator(hrefs[2]))) # {}
           /\ Unresolved(hrefBad) /\ Unresolved(hrefUnsafe)

\* C12: links are read from every step, whatever its result: the build a step that
\* did not fail links to is requested, and its failed steps are in the reports of a
\* successful call
C12_LinksOfAllSteps ==
  (Called("recursive") /\ outcome.state = "ok") =>
    \A p \in DOMAIN server :
      server[p].ok =>
        \A i \in 1..Len(server[p].nodes) :
          server[p].nodes[i].result # "FAILURE" =>
            \A j \in 1..Len(server[p].nodes[i].actions) :
              LET href == server[p].nodes[i].actions[j].link
                  parsed == parseLocator(href)
              IN  (href # NoHref /\ parsed.ok) =>
                    /\ Fetched(Info(parsed))
                    /\ FailedSteps(Info(parsed)) \subseteq ReportPairs(outcome.value)
C12_Witness ==
  /\ Called("recursive") /\ outcome.state = "ok"
  /\ Answered(Root) /\ FailedSteps(Root) = {}
  /\ \E b \in Children(Root) : b # Root /\ FailedSteps(b) # {}
  /\ Len(outcome.value) >= 1

---------------------------------------------------------------------------
(* Claims about the resolvers, checked under LocSpec                       *)

\* a segment as written is unsafe when, percent-decoded, it is "." or ".." or
\* holds a character outside [a-zA-Z0-9_.\- ]
UnsafeSeg(seg) ==
  LET plain == decodeURIComponent(seg)
  IN  \/ plain \in {<<".">>, <<".", ".">>}
      \/ \E i \in 1..Len(plain) : plain[i] \notin SafeSyms
AllValid(segs) == \A i \in 1..Len(segs) : segs[i] # <<>> /\ ~UnsafeSeg(segs[i])

\* the coordinates and job paths the last operation returned
Returned ==
  CASE resolution.op \in {"parseLocator", "parseJobLocator"} ->
         {resolution.out[f] : f \in {g \in DOMAIN resolution.out : resolution.out[g].ok}}
    [] resolution.op = "parseNodeUrl" ->
         IF resolution.out.ok THEN {resolution.out} ELSE {}
    [] resolution.op = "rebuild" ->
         {r \in {resolution.fromApiPath, resolution.fromWebUrl, resolution.fromNodeWebUrl} : r.ok}
    [] OTHER -> {}

\* C13: a text whose path segments hold an unsafe segment, plain or percent-encoded,
\* is rejected by parseLocator, parseJobLocator and parseNodeUrl in every format
C13_UnsafeRejected ==
  (resolution.op \in {"parseLocator", "parseJobLocator", "parseNodeUrl"}
     /\ \E i \in 1..Len(segments) : UnsafeSeg(segments[i])) => Returned = {}

\* the root token followed by one or more safe, non-empty segments
WellFormedPath(path) ==
  LET segs == Split(path)
  IN  /\ Len(segs) >= 2
      /\ segs[1] = <<"pipelines">>
      /\ \A i \in 2..Len(segs) :
           /\ segs[i] # <<>>
           /\ segs[i] \notin {<<".">>, <<".", ".">>}
           /\ \A k \in 1..Len(segs[i]) : segs[i][k] \in SafeSyms

\* C14: every path a resolver returns is the root token followed by one or more
\* non-empty safe segments separated by single slashes
C14_WellFormedPaths == \A r \in Returned : WellFormedPath(r.path)

\* what a build written from valid segments stands for
ExpectedPath ==
  <<"pipelines", "/">> \o Join([i \in 1..Len(segments) |-> decodeURIComponent(segments[i])])
ExpectedNumber == IF number = <<"7">> THEN 7 ELSE 42
ExpectedCoordinate == [ok |-> TRUE, path |-> ExpectedPath, buildNumber |-> ExpectedNumber]

\* C15: a build written from valid segments resolves to the same coordinate in all
\* four formats
C15_FormatsAgree ==
  (resolution.op = "parseLocator" /\ AllValid(segments)) =>
    \A f, g \in BuildFormats :
      /\ resolution.out[f].ok
      /\ resolution.out[f] = resolution.out[g]

\* C16: a job URL .../job/A/job/B/<n>/ of valid segments resolves to the path
\* pipelines/A/B, the segments in order, and the number n
C16_JobUrl ==
  (resolution.op = "parseLocator" /\ AllValid(segments)) =>
    resolution.out["jobUrl"] = ExpectedCoordinate
C16_Witness ==
  /\ resolution.op = "parseLocator"
  /\ segments = <<<<"A">>, <<"job">>, <<"a", "%", "2", "0", "b">>>>
  /\ number = <<"4", "2">>
  /\ resolution.out["jobUrl"] =
       [ok |-> TRUE, buildNumber |-> 42,
        path |-> <<"pipelines", "/", "A", "/", "job", "/", "a", " ", "b">>]

\* C17: a bare path of valid segments, with or without /runs/, resolves to the path
\* made of exactly these segments and to its number, whatever the segments are named
C17_BarePaths ==
  (resolution.op = "parseLocator" /\ AllValid(segments)) =>
    /\ resolution.out["pathWithBuild"] = ExpectedCoordinate
    /\ resolution.out["pathWithRuns"] = ExpectedCoordinate

\* C18: the request path built from a coordinate that parseLocator returned resolves
\* to that coordinate again
C18_ApiPathRoundTrip ==
  resolution.op = "rebuild" =>
    /\ resolution.fromApiPath.ok
    /\ Info(resolution.fromApiPath) = resolution.coordinate

\* C19: the human-facing URL built from a coordinate that parseLocator returned is a
\* locator that resolves to that coordinate again
C19_WebUrlRoundTrip ==
  resolution.op = "rebuild" =>
    /\ resolution.fromWebUrl.ok
    /\ Info(resolution.fromWebUrl) = resolution.coordinate

---------------------------------------------------------------------------
(* Claims about watch, checked under WatchSpec                             *)

\* C20: no notify call names a build that existed when watch started, that is a
\* build number at most the latest build number at startup, whether the startup
\* getBuilds succeeded or failed
C20_OnlyNewFailures == \A i \in 1..Len(notified) : notified[i] > atStart

NotifiedBuilds == {notified[i] : i \in 1..Len(notified)}
\* watch is never stopped and its build-list requests succeed again and again
PollingKeepsRunning == [](~hasCleanedUp) /\ []<><<CheckPipeline(TRUE)>>_vars
\* build n, once it exists, is among the `limit` most recent builds
StaysRecent(n) == n <= Len(builds) => Len(builds) - n < options.limit
\* build n does not exist yet when initialize has recorded the high water mark, so
\* its number is above the startup high water mark
StartedAfterStartup(n) == phase \in {"firstPoll", "interval"} /\ Len(builds) < n
EndsInFailure(n) == n <= Len(builds) /\ builds[n] = "FAILURE"

\* C21: while polling keeps running with notifications enabled, every build that
\* starts after the startup high water mark was recorded, stays among the `limit` most
\* recent builds and ends with result FAILURE is eventually notified, also when a
\* poll saw it while it was running
C21_FailureNotified ==
  \A n \in 1..MaxBuilds :
    (PollingKeepsRunning /\ [](~options.noNotify) /\ [](StaysRecent(n))) =>
      [](StartedAfterStartup(n) => [](EndsInFailure(n) => <>(n \in NotifiedBuilds)))

RECURSIVE Newest(_, _)
\* the k largest numbers of a set, largest first
Newest(ids, k) ==
  IF k = 0 \/ ids = {} THEN <<>>
  ELSE LET top == CHOOSE n \in ids : \A other \in ids : other <= n
       IN  <<top>> \o Newest(ids \ {top}, k - 1)
RecentIds == [i \in 1..Len(recentFailures) |-> ParseInt(recentFailures[i].build.id)]

\* C22: the recent-failures list never holds more than 10 entries, and when no poll
\* is in progress it holds the newest of the failures found so far, newest first
C22_RecentFailuresBounded ==
  /\ Len(recentFailures) <= 10
  /\ pollStep = "idle" => RecentIds = Newest(NotifiedBuilds, 10)
C22_Witness ==
  /\ pollStep = "idle"
  /\ Len(recentFailures) = 10
  /\ Cardinality(NotifiedBuilds) = 11
  /\ RecentIds[10] = 2
  /\ \E i \in 1..10 : notified[i] < notified[i + 1]

---------------------------------------------------------------------------
(* Claims about the command line, checked under CliSpec                    *)

\* C23: the failures command calls the recursive operation whenever --shallow is
\* absent, with or without --recursive, and the shallow one exactly when --shallow
\* is present; it calls neither only when it rejects the --grep pattern
C23_RecursiveByDefault ==
  (command.op = "failuresCommand" /\ command.done) =>
    /\ command.called = "recursive" <=> (~command.options.shallow /\ command.exit # 1)
    /\ command.called = "shallow" <=> (command.options.shallow /\ command.exit # 1)
    /\ command.exit = 1 <=> command.options.grep = <<"(", "a">>
C23_Witness ==
  /\ command.op = "failuresCommand"
  /\ command.done
  /\ ~command.options.shallow
  /\ ~command.options.recursive
  /\ command.called = "recursive"

\* C24: getExitCodeForError returns the code of the documented table: 2 for the
\* configuration errors, 3 for NetworkError, 4 for AuthenticationError, 5 for the
\* not-found errors, 6 for ValidationError, 7 for InvalidLocatorError, 99 otherwise
DocumentedExitCode(tag) ==
  CASE tag \in {"ConfigError", "ConfigNotFoundError"} -> 2
    [] tag = "NetworkError" -> 3
    [] tag = "AuthenticationError" -> 4
    [] tag \in {"BuildNotFoundError", "NodeNotFoundError"} -> 5
    [] tag = "ValidationError" -> 6
    [] tag = "InvalidLocatorError" -> 7
    [] OTHER -> 99
C24_DocumentedExitCodes ==
  (command.op = "getExitCodeForError" /\ command.done) =>
    command.exit = DocumentedExitCode(command.error._tag)

---------------------------------------------------------------------------
(* Claims about the order of the traversal, checked under Spec             *)

RECURSIVE Held(_)
\* the coordinates the calls in progress hold: the build of each call and the
\* sub-builds it has claimed and not yet entered
Held(stk) ==
  IF stk = <<>> THEN <<>> ELSE Held(Pop(stk)) \o <<stk[Len(stk)].info>> \o stk[Len(stk)].subs
PathCount(path) == Cardinality({i \in 1..Len(nodeFetches) : nodeFetches[i] = path})
ReportCount(b) ==
  Cardinality({i \in 1..Len(outcome.value) : ReportBuild(outcome.value[i]) = b})

\* C25: a coordinate is claimed by the test of the visited set and the insertion of
\* its key in one step: every coordinate a branch holds is in the visited set, no two
\* branches hold the same coordinate, a claimed sub-build has not been requested
\* before, and a build linked from two builds is requested and reported by one of them
C25_FirstClaimWins ==
  mode = "recursive" =>
    LET held == Held(stack)
    IN  /\ \A i \in 1..Len(held) : Key(held[i]) \in visited
        /\ \A i, j \in 1..Len(held) : i # j => Key(held[i]) # Key(held[j])
        /\ \A k \in 1..Len(stack) : \A i \in 1..Len(stack[k].subs) :
             PathCount(buildNodesApiPath(stack[k].subs[i])) = 0
        /\ (Called("recursive") /\ outcome.state = "ok" /\ AllAnswersOk /\ AllConsoleOk) =>
             \A b, x, y \in Reachable :
               (x # y /\ b \in Children(x) /\ b \in Children(y)) =>
                 /\ PathCount(buildNodesApiPath(b)) = 1
                 /\ ReportCount(b) = Cardinality(FailedSteps(b))
C25_Witness ==
  /\ Called("recursive") /\ outcome.state = "ok" /\ AllAnswersOk /\ AllConsoleOk
  /\ \E b \in Children(Root) : \E x \in Children(Root) :
       /\ b # Root /\ x # Root /\ x # b
       /\ b \in Children(x)
       /\ FailedSteps(b) # {}
       /\ ReportCount(b) = Cardinality(FailedSteps(b))
       /\ PathCount(buildNodesApiPath(b)) = 1

\* the calls below the one on top of the stack
Below == 1..(Len(stack) - 1)

\* C26 as stated: the fetches of one level are in flight together, none waits for a
\* sibling: while a console text of a level is awaited no other console text of the
\* level is still to be requested, and while a sub-build of a level is traversed no
\* other sub-build of the level is still to be entered
C26_SiblingsInFlight ==
  mode = "recursive" =>
    \A k \in 1..Len(stack) :
      /\ stack[k].phase = "console" => Len(stack[k].todo) <= 1
      /\ k \in Below => stack[k].subs = <<>>

\* C26, amended: the fetches of one level run one after the other: only the call on
\* top of the stack has a request in flight, every call below it has had all its
\* console texts answered and waits for one sub-build, a call enters no sub-build
\* before its last console text is answered, and when the call has succeeded every
\* claimed coordinate has been requested
C26_LevelSequential ==
  mode = "recursive" =>
    /\ \A k \in Below : stack[k].phase = "subs" /\ stack[k].todo = <<>>
    /\ stack # <<>> =>
         LET top == stack[Len(stack)]
         IN  /\ top.phase \in {"nodes", "console"}
             /\ top.subs = <<>> /\ top.sub = <<>>
             /\ top.phase = "console" => top.todo # <<>>
    /\ (Called("recursive") /\ outcome.state = "ok") =>
         \A b \in Reachable : Key(b) \in visited => PathCount(buildNodesApiPath(b)) = 1
C26_Witness ==
  /\ mode = "recursive"
  /\ Len(stack) = 1
  /\ stack[1].phase = "console"
  /\ Len(stack[1].todo) = 2
  /\ Cardinality(LinkTargets(stack[1].nodes) \ {Root}) = 2

\* a poll is past its first statement and has not reached the end of its finally
\* block
PollInProgress == pollStep # "idle"
PollStarts == pollStep # "checkPipeline" /\ pollStep' = "checkPipeline"

C28_NotifiedOnce ==
  \A i, j \in 1..Len(notified) : notified[i] = notified[j] => i = j

\* C29: once cleanup has run, no notification is sent and no poll starts, also when
\* cleanup ran while a poll was in progress, and cleanup does not take effect again
C29_StoppedIsQuiet ==
  [][hasCleanedUp => /\ notified' = notified
                     /\ ~PollStarts
                     /\ hasCleanedUp' /\ ~isRunning']_vars

\* C30: with or without --no-notify, a poll that has found new failed builds ends
\* with them at the front of the recent-failures list and with the first of them as
\* the latest failure
C30_NoNotifyOnlySilences ==
  [][(pollStep = "notify" /\ pollStep' = "idle" /\ Len(allNewFailures) > 0) =>
       /\ recentFailures' = Unshift(recentFailures, allNewFailures)
       /\ latestFailure' = <<allNewFailures[1]>>]_vars

====
